---------------------------- MODULE Spec2Model ----------------------------
(***************************************************************************)
(* MicroBridge: conversion of NDP.view2 annotation files (.ndpa, XML) and  *)
(* CSV exports into the flat LMD XML document.                             *)
(*                                                                         *)
(* Modelled from src/The_Source_Code/MicroBridge_CLI.py                    *)
(* (convert_ndpa_to_lmd, batch_convert_directory) and                      *)
(* src/The_Source_Code/MicroBridge_GUI.py (convert_ndpa_file,              *)
(* convert_csv_file, _worker_convert_files).                               *)
(*                                                                         *)
(* An input document is abstracted to what the converters read of it: per  *)
(* region the annotation element, its direct x/y children, the point       *)
(* elements and whether they sit in a pointlist; per coordinate element    *)
(* the class of its text.  An output document is the sequence of lines     *)
(* written to the output file.                                             *)
(***************************************************************************)
EXTENDS Integers, Sequences, FiniteSets, TLC

VARIABLES
    call,      \* the conversion call made: tool, input, flags
    res,       \* what the call gave back: return value, escaping exception, log
    disk,      \* the file at the output path: exists, lines
    batch,     \* the batch loop: files, position, success count, attempts
    past,      \* the calls made so far in the process and the output files left
    app        \* the window: file list, button, stop event, worker, queue

vars == <<call, res, disk, batch, past, app>>

---------------------------------------------------------------------------
(* Bounds of the model *)

\* longest region sequence over the regular region kinds
MaxRegions == 6
\* longest region sequence over all region kinds, the irregular ones included
MaxWide == 4
\* most points in a freehand region
MaxPts == 2
\* most raw rows of a CSV input over the regular row kinds
MaxRows == 6
\* most raw rows of a CSV input over all row kinds, the irregular ones included
MaxWideRows == 5
\* most files in a batch
MaxBatch == 3

---------------------------------------------------------------------------
(* Text of a coordinate element, as the converters can tell it apart *)

Num(v) == [k |-> "num", v |-> v]            \* decimal text, value v
NoText == [k |-> "notext", v |-> 0]         \* <x/>: no child node
Blank  == [k |-> "blank", v |-> 0]          \* whitespace-only text
Junk   == [k |-> "junk", v |-> 0]           \* text float() rejects
NaN    == [k |-> "nan", v |-> 0]            \* the text "nan": float() accepts it
Absent == [k |-> "absent", v |-> 0]         \* no such element

\* a value written between tags: an integer, or str(None)
IntVal(i) == [none |-> FALSE, i |-> i]
NoneVal   == [none |-> TRUE, i |-> 0]

\* one line of the output document
Line(tag, n, v) == [tag |-> tag, n |-> n, v |-> v]
Plain(tag) == Line(tag, 0, IntVal(0))

\* a log message (print of the CLI, queue item of the GUI)
Msg(m, n) == [m |-> m, n |-> n]

\* a local variable: the value v, named by the parameter of F in what follows
With(v, F(_)) == F(v)

---------------------------------------------------------------------------
(* Numeric conversion *)

\* the nm -> um divisor
NmPerUm == 1000

\* Python round() of the quotient n/d: nearest integer, ties to even
RoundHalfEven(n, d) ==
    LET q == n \div d
        r == n % d
    IN  IF 2 * r < d THEN q
        ELSE IF 2 * r > d THEN q + 1
        ELSE IF q % 2 = 0 THEN q ELSE q + 1

\* the quotient rounded with ties upward
NmToUmMutant(v) == (2 * v + NmPerUm) \div (2 * NmPerUm)

\* int(round(x_nm / 1000))
NmToUm(v) == RoundHalfEven(v, NmPerUm)

\* float(<text>) : "ok" with a value, "nan", or ValueError
PyFloat(t) ==
    CASE t.k = "num" -> [st |-> "ok", v |-> t.v]
      [] t.k = "nan" -> [st |-> "nan", v |-> 0]
      [] OTHER -> [st |-> "ValueError", v |-> 0]

\* CLI: float(elem.firstChild.data if elem.firstChild else 0)
CliFloat(t) == IF t.k = "notext" THEN [st |-> "ok", v |-> 0] ELSE PyFloat(t)

\* GUI: _get_element_text gives "0" for a missing element and for an element
\* with no child, and the stripped text otherwise; then float() of it
GuiFloat(t) ==
    IF t.k \in {"absent", "notext"} THEN [st |-> "ok", v |-> 0] ELSE PyFloat(t)

\* The x/y parse-and-convert sequence of both converters:
\*   x_nm = float(..); y_nm = float(..)
\*   x_um = int(round(x_nm / 1000)); y_um = int(round(y_nm / 1000))
\* st is "ok" or the exception raised; x and y are the values of x_um and
\* y_um assigned before it was raised (None when not assigned).
ConvertPair(fx, fy) ==
    IF fx.st = "ValueError" \/ fy.st = "ValueError" \/ fx.st = "nan"
    THEN [st |-> "ValueError", x |-> NoneVal, y |-> NoneVal]
    ELSE IF fy.st = "nan"
    THEN [st |-> "ValueError", x |-> IntVal(NmToUm(fx.v)), y |-> NoneVal]
    ELSE [st |-> "ok", x |-> IntVal(NmToUm(fx.v)), y |-> IntVal(NmToUm(fy.v))]

---------------------------------------------------------------------------
(* Regions of an XML input *)

Pt(x, y) == [x |-> x, y |-> y]

\* ann:   the region has an annotation element
\* cx,cy: the annotation's direct x / y children (circle annotation)
\* pts:   the region's point elements, in document order
\* plist: the points sit in a pointlist element
\* inAnn: the points sit inside the annotation element
Region(ann, cx, cy, pts, plist, inAnn) ==
    [ann |-> ann, cx |-> cx, cy |-> cy, pts |-> pts, plist |-> plist,
     inAnn |-> inAnn]

RECURSIVE Present(_)
\* the texts of a sequence that belong to elements that exist
Present(ts) ==
    IF ts = <<>> THEN <<>>
    ELSE IF ts[1].k = "absent" THEN Present(Tail(ts))
    ELSE <<ts[1]>> \o Present(Tail(ts))

\* annotation.getElementsByTagName("x"): every x below the annotation
AnnXs(r) ==
    Present(<<r.cx>>)
    \o (IF r.inAnn THEN Present([i \in 1..Len(r.pts) |-> r.pts[i].x]) ELSE <<>>)

AnnYs(r) ==
    Present(<<r.cy>>)
    \o (IF r.inAnn THEN Present([i \in 1..Len(r.pts) |-> r.pts[i].y]) ELSE <<>>)

\* a point of a freehand region: distinct values per position, x a tie
\* (1500, 2500), y negative (-1200, then the tie -2500)
FreePt(i) == Pt(Num(1000 * i + 500), Num(100 - 1300 * i))

CircleA == Region(TRUE, Num(1500), Num(2500), <<>>, FALSE, FALSE)
\* linear measure: an annotation with x1/y1/x2/y2 only
Ruler == Region(TRUE, Absent, Absent, <<>>, FALSE, FALSE)
NoAnnotation == Region(FALSE, Absent, Absent, <<>>, FALSE, FALSE)
Freehand(n) ==
    Region(TRUE, Absent, Absent, [i \in 1..n |-> FreePt(i)], TRUE, TRUE)

\* irregular regions
\* circle x unparseable, pointlist beside the annotation
JunkCircle ==
    Region(TRUE, Junk, Num(2500), <<Pt(Num(9000), Num(8000))>>, TRUE, FALSE)
\* circle with a parseable x and the y text "nan"
HalfNaN == Region(TRUE, Num(1500), NaN, <<>>, FALSE, FALSE)
\* circle whose x and y elements are empty
EmptyCircle == Region(TRUE, NoText, NoText, <<>>, FALSE, FALSE)
\* freehand whose only point has no x child
LackX ==
    Region(TRUE, Absent, Absent, <<Pt(Absent, Num(4000))>>, TRUE, TRUE)
\* point elements outside any pointlist
BarePoints ==
    Region(TRUE, Absent, Absent, <<FreePt(1)>>, FALSE, TRUE)
\* freehand with a whitespace-only coordinate
BlankPoint ==
    Region(TRUE, Absent, Absent, <<FreePt(1), Pt(Blank, Num(4000))>>, TRUE, TRUE)

\* regions as NDP.view2 writes them; freehand ones with one point and with
\* the most points
RegularRegions == {CircleA, Ruler, Freehand(1), Freehand(MaxPts)}

\* the irregular regions, with one regular circle and one regular freehand
WideRegions ==
    {CircleA, Freehand(1), NoAnnotation, JunkCircle, HalfNaN, EmptyCircle,
     LackX, BarePoints, BlankPoint}

\* all sequences over S of length at most n
SeqsUpTo(S, n) == UNION {[1..m -> S] : m \in 0..n}

RegionSeqs ==
    SeqsUpTo(RegularRegions, MaxRegions) \cup SeqsUpTo(WideRegions, MaxWide)

\* an input file: missing, not well-formed XML, or a parsed document
XmlInput(state, regions) ==
    [fmt |-> "xml", state |-> state, regions |-> regions, rows |-> <<>>]

XmlInputs ==
    {XmlInput("missing", <<>>), XmlInput("malformed", <<>>)}
    \cup {XmlInput("ok", rs) : rs \in RegionSeqs}

---------------------------------------------------------------------------
(* convert_ndpa_to_lmd (CLI) *)

NoPair == [st |-> "skip", x |-> NoneVal, y |-> NoneVal]

\* Method 1: the first x and the first y below the first annotation element
CliMethod1(r) ==
    IF r.ann /\ AnnXs(r) # <<>> /\ AnnYs(r) # <<>>
    THEN ConvertPair(CliFloat(AnnXs(r)[1]), CliFloat(AnnYs(r)[1]))
    ELSE NoPair

\* Method 2: the first point element of the region; [0] of an empty
\* getElementsByTagName result raises IndexError, which the try does not catch
CliMethod2(r) ==
    IF r.pts = <<>> THEN NoPair
    ELSE IF r.pts[1].x.k = "absent" \/ r.pts[1].y.k = "absent"
    THEN [st |-> "IndexError", x |-> NoneVal, y |-> NoneVal]
    ELSE ConvertPair(CliFloat(r.pts[1].x), CliFloat(r.pts[1].y))

\* The two methods in order; Method 2 runs only when x_um is still None.
\* st: "ok" (x_um is set), "missing" (x_um is None) or the exception escaping.
\* src: the method whose success line was printed ("none" when none was).
CliCalib(r) ==
    With(CliMethod1(r), LAMBDA m1 :
    With(CliMethod2(r), LAMBDA m2 :
        IF ~m1.x.none
        THEN [st |-> "ok", x |-> m1.x, y |-> m1.y,
              src |-> IF m1.st = "ok" THEN "circle" ELSE "none"]
        ELSE IF m2.st = "IndexError"
        THEN [st |-> "IndexError", x |-> NoneVal, y |-> NoneVal, src |-> "none"]
        ELSE IF ~m2.x.none
        THEN [st |-> "ok", x |-> m2.x, y |-> m2.y,
              src |-> IF m2.st = "ok" THEN "pointlist" ELSE "none"]
        ELSE [st |-> "missing", x |-> NoneVal, y |-> NoneVal, src |-> "none"]))

\* a threshold that asks for a shape region as well
MinRegionsMutant == 3 + 1

\* the fewest regions an XML conversion takes: if len(regions) < 3
MinRegions == 3

\* a calibration entry that lacks its Y line
CalLinesMutant(k, x, y) == <<Line("X_CalibrationPoint", k, x)>>

\* the two lines written for calibration point k
CalLines(k, x, y) ==
    <<Line("X_CalibrationPoint", k, x), Line("Y_CalibrationPoint", k, y)>>

RECURSIVE CliCalLoop(_, _, _)
\* the calibration loop from cal_idx = k-1 on: what it writes and prints, and
\* how it ends ("ok", "False" for the return inside the loop, or an exception)
CliCalLoop(regions, allow, k) ==
    IF k > 3 THEN [st |-> "ok", lines |-> <<>>, log |-> <<>>]
    ELSE
    With(CliCalib(regions[k]), LAMBDA c :
    With(CliCalLoop(regions, allow, k + 1), LAMBDA rest :
        CASE c.st = "IndexError" ->
               [st |-> "IndexError", lines |-> <<>>, log |-> <<>>]
          [] c.st = "missing" /\ ~allow ->
               [st |-> "False", lines |-> <<>>,
                log |-> <<Msg("cal_no_coordinates", k), Msg("conversion_failed", k)>>]
          [] c.st = "missing" /\ allow ->
               [st |-> rest.st,
                lines |-> CalLines(k, IntVal(0), IntVal(0)) \o rest.lines,
                log |-> <<Msg("cal_no_coordinates", k), Msg("placeholder_warning", k),
                          Msg("cal_placeholder", k)>> \o rest.log]
          [] OTHER ->
               [st |-> rest.st,
                lines |-> CalLines(k, c.x, c.y) \o rest.lines,
                log |-> (IF c.src = "none" THEN <<>> ELSE <<Msg("cal_" \o c.src, k)>>)
                        \o rest.log]))

\* vertex lines indexed from 2
PointLinesMutant(i, x, y) == <<Line("X", i + 1, x), Line("Y", i + 1, y)>>

\* the two lines written for vertex i of a shape
PointLines(i, x, y) == <<Line("X", i, x), Line("Y", i, y)>>

RECURSIVE CliPointLoop(_, _)
\* the vertex loop of one shape from point i on
CliPointLoop(pts, i) ==
    IF i > Len(pts) THEN [st |-> "ok", lines |-> <<>>]
    ELSE IF pts[i].x.k = "absent" \/ pts[i].y.k = "absent"
    THEN [st |-> "IndexError", lines |-> <<>>]
    ELSE
    With(ConvertPair(CliFloat(pts[i].x), CliFloat(pts[i].y)), LAMBDA c :
    With(CliPointLoop(pts, i + 1), LAMBDA rest :
        IF c.st # "ok" THEN [st |-> c.st, lines |-> <<>>]
        ELSE [st |-> rest.st,
              lines |-> PointLines(i, c.x, c.y) \o rest.lines]))

\* the number written in the tags of the shape taken from region idx (1-based):
\* shape_num = shape_idx - 2 with shape_idx counted from 0
ShapeNum(idx) == idx - 3

\* num_shapes = len(valid_shapes)
NumShapes(regions, valid) == Len(valid)

\* a first pass that takes the third region for a shape as well
CliValidShapesMutant(regions) ==
    SelectSeq([i \in 1..Len(regions) |-> i],
              LAMBDA i : i > 2 /\ Len(regions[i].pts) > 0)

\* First pass: the regions after the third in which a point element is found
CliValidShapes(regions) ==
    SelectSeq([i \in 1..Len(regions) |-> i],
              LAMBDA i : i > 3 /\ Len(regions[i].pts) > 0)

RECURSIVE CliShapeLoop(_, _, _)
\* Second pass from the j-th valid shape on
CliShapeLoop(regions, valid, j) ==
    IF j > Len(valid) THEN [st |-> "ok", lines |-> <<>>, log |-> <<>>]
    ELSE
    With(valid[j], LAMBDA idx :
    With(CliPointLoop(regions[idx].pts, 1), LAMBDA body :
    With(<<Line("Shape", ShapeNum(idx), IntVal(0)),
           Line("PointCount", 0, IntVal(Len(regions[idx].pts)))>> \o body.lines,
         LAMBDA head :
    With(CliShapeLoop(regions, valid, j + 1), LAMBDA rest :
        IF body.st # "ok"
        THEN [st |-> body.st, lines |-> head, log |-> <<Msg("shape", ShapeNum(idx))>>]
        ELSE [st |-> rest.st,
              lines |-> head \o <<Line("/Shape", ShapeNum(idx), IntVal(0))>> \o rest.lines,
              log |-> <<Msg("shape", ShapeNum(idx))>> \o rest.log]))))

Header == <<Plain("xml"), Plain("ImageData"), Line("GlobalCoordinates", 0, IntVal(1))>>

\* the body of the with-block that writes the output file
CliWrite(regions, allow) ==
    With(CliCalLoop(regions, allow, 1), LAMBDA cal :
    With(CliValidShapes(regions), LAMBDA valid :
    With(CliShapeLoop(regions, valid, 1), LAMBDA shp :
    With(<<Line("ShapeCount", 0, IntVal(NumShapes(regions, valid)))>>, LAMBDA count :
        IF cal.st # "ok"
        THEN [st |-> cal.st, lines |-> Header \o cal.lines,
              log |-> <<Msg("processing_calibration", 0)>> \o cal.log]
        ELSE IF shp.st # "ok"
        THEN [st |-> shp.st, lines |-> Header \o cal.lines \o count \o shp.lines,
              log |-> <<Msg("processing_calibration", 0)>> \o cal.log
                      \o <<Msg("processing_shapes", Len(valid))>> \o shp.log]
        ELSE [st |-> "ok",
              lines |-> Header \o cal.lines \o count \o shp.lines
                        \o <<Plain("/ImageData")>>,
              log |-> <<Msg("processing_calibration", 0)>> \o cal.log
                      \o <<Msg("processing_shapes", Len(valid))>> \o shp.log]))))

\* What a call gives back.  ret: "True", "False", or "Raised" when an exception
\* escapes the function (exc names it).  opened: the output file was opened
\* for writing (created or truncated); lines: what was written to it.
Result(ret, exc, opened, lines, log) ==
    [ret |-> ret, exc |-> exc, opened |-> opened, lines |-> lines, log |-> log]

\* The except clauses.  The last one reads sys.argv, and the module imports
\* sys only under  if __name__ == "__main__":  so it raises NameError unless
\* the module runs as a script.
CliHandlers(st, script, opened, lines, log) ==
    CASE st = "ok" ->
           Result("True", "", opened, lines, log \o <<Msg("complete", 0)>>)
      [] st = "False" -> Result("False", "", opened, lines, log)
      [] st = "ValueError" ->
           Result("False", "", opened, lines, log \o <<Msg("error_invalid_data", 0)>>)
      [] st = "ExpatError" ->
           Result("False", "", opened, lines, log \o <<Msg("error_invalid_xml", 0)>>)
      [] OTHER ->
           IF script
           THEN Result("False", "", opened, lines,
                       log \o <<Msg("error_unexpected", 0), Msg("debug_hint", 0)>>)
           ELSE Result("Raised", "NameError", opened, lines,
                       log \o <<Msg("error_unexpected", 0)>>)

convert_ndpa_to_lmd(in, allow, script) ==
    IF in.state = "missing"
    THEN Result("False", "", FALSE, <<>>, <<Msg("error_not_found", 0)>>)
    ELSE IF in.state = "malformed" \/ in.fmt # "xml"
    THEN CliHandlers("ExpatError", script, FALSE, <<>>, <<Msg("reading", 0)>>)
    ELSE
    LET n == Len(in.regions)
        found == <<Msg("reading", 0), Msg("found_regions", n)>>
    IN  IF n < MinRegions
        THEN Result("False", "", FALSE, <<>>,
                    found \o <<Msg("warning_few_regions", n), Msg("error_need_3", n)>>)
        ELSE With(CliWrite(in.regions, allow), LAMBDA w :
               CliHandlers(w.st, script, TRUE, w.lines,
                           found \o (IF n < 4 THEN <<Msg("warning_few_regions", n)>> ELSE <<>>)
                                 \o w.log))

---------------------------------------------------------------------------
(* MicroBridgeConverterApp.convert_ndpa_file (GUI) *)

\* Method 1, as in the CLI but through _get_element_text
GuiMethod1(r) ==
    IF r.ann /\ AnnXs(r) # <<>> /\ AnnYs(r) # <<>>
    THEN ConvertPair(GuiFloat(AnnXs(r)[1]), GuiFloat(AnnYs(r)[1]))
    ELSE NoPair

\* pointlists[0].getElementsByTagName("point"): the points of the pointlist
GuiPts(r) == IF r.plist THEN r.pts ELSE <<>>

\* Method 2: the first point of the first pointlist; a missing x or y child
\* is passed as None and read as "0"
GuiMethod2(r) ==
    IF GuiPts(r) = <<>> THEN NoPair
    ELSE ConvertPair(GuiFloat(GuiPts(r)[1].x), GuiFloat(GuiPts(r)[1].y))

GuiCalib(r) ==
    With(GuiMethod1(r), LAMBDA m1 :
    With(GuiMethod2(r), LAMBDA m2 :
        IF ~m1.x.none
        THEN [st |-> "ok", x |-> m1.x, y |-> m1.y,
              src |-> IF m1.st = "ok" THEN "circle" ELSE "none"]
        ELSE IF ~m2.x.none
        THEN [st |-> "ok", x |-> m2.x, y |-> m2.y,
              src |-> IF m2.st = "ok" THEN "pointlist" ELSE "none"]
        ELSE [st |-> "missing", x |-> NoneVal, y |-> NoneVal, src |-> "none"]))

RECURSIVE GuiCalLoop(_, _)
\* the calibration loop from i = k-1 on; a missing point returns False
GuiCalLoop(regions, k) ==
    IF k > 3 THEN [st |-> "ok", lines |-> <<>>, log |-> <<>>]
    ELSE
    With(GuiCalib(regions[k]), LAMBDA c :
    With(GuiCalLoop(regions, k + 1), LAMBDA rest :
        IF c.st = "missing"
        THEN [st |-> "False", lines |-> <<>>,
              log |-> <<Msg("cal_no_coordinates", k), Msg("conversion_failed", k)>>]
        ELSE [st |-> rest.st,
              lines |-> CalLines(k, c.x, c.y) \o rest.lines,
              log |-> (IF c.src = "none" THEN <<>> ELSE <<Msg("cal_" \o c.src, k)>>)
                      \o rest.log]))

RECURSIVE GuiPointLoop(_, _)
GuiPointLoop(pts, i) ==
    IF i > Len(pts) THEN [st |-> "ok", lines |-> <<>>]
    ELSE
    With(ConvertPair(GuiFloat(pts[i].x), GuiFloat(pts[i].y)), LAMBDA c :
    With(GuiPointLoop(pts, i + 1), LAMBDA rest :
        IF c.st # "ok" THEN [st |-> c.st, lines |-> <<>>]
        ELSE [st |-> rest.st,
              lines |-> PointLines(i, c.x, c.y) \o rest.lines]))

\* First pass: the regions after the third with a pointlist that holds points
GuiValidShapes(regions) ==
    SelectSeq([i \in 1..Len(regions) |-> i],
              LAMBDA i : i > 3 /\ Len(GuiPts(regions[i])) > 0)

RECURSIVE GuiShapeLoop(_, _, _)
\* Second pass from the j-th valid shape on.  The first point is converted
\* once for the log line before the vertex loop converts every point.
GuiShapeLoop(regions, valid, j) ==
    IF j > Len(valid) THEN [st |-> "ok", lines |-> <<>>, log |-> <<>>]
    ELSE
    With(valid[j], LAMBDA idx :
    With(GuiPts(regions[idx]), LAMBDA pts :
    With(ConvertPair(GuiFloat(pts[1].x), GuiFloat(pts[1].y)), LAMBDA first :
    With(GuiPointLoop(pts, 1), LAMBDA body :
    With(<<Line("Shape", ShapeNum(idx), IntVal(0)),
           Line("PointCount", 0, IntVal(Len(pts)))>>, LAMBDA head :
    With(GuiShapeLoop(regions, valid, j + 1), LAMBDA rest :
        IF first.st # "ok"
        THEN [st |-> first.st, lines |-> head, log |-> <<>>]
        ELSE IF body.st # "ok"
        THEN [st |-> body.st, lines |-> head \o body.lines,
              log |-> <<Msg("shape", ShapeNum(idx))>>]
        ELSE [st |-> rest.st,
              lines |-> head \o body.lines
                        \o <<Line("/Shape", ShapeNum(idx), IntVal(0))>> \o rest.lines,
              log |-> <<Msg("shape", ShapeNum(idx))>> \o rest.log]))))))

GuiWrite(regions) ==
    With(GuiCalLoop(regions, 1), LAMBDA cal :
    With(GuiValidShapes(regions), LAMBDA valid :
    With(GuiShapeLoop(regions, valid, 1), LAMBDA shp :
    With(<<Line("ShapeCount", 0, IntVal(NumShapes(regions, valid)))>>, LAMBDA count :
        IF cal.st # "ok"
        THEN [st |-> cal.st, lines |-> Header \o cal.lines, log |-> cal.log]
        ELSE IF shp.st # "ok"
        THEN [st |-> shp.st, lines |-> Header \o cal.lines \o count \o shp.lines,
              log |-> cal.log \o <<Msg("processing_shapes", Len(valid))>> \o shp.log]
        ELSE [st |-> "ok",
              lines |-> Header \o cal.lines \o count \o shp.lines
                        \o <<Plain("/ImageData")>>,
              log |-> cal.log \o <<Msg("processing_shapes", Len(valid))>> \o shp.log]))))

\* The except clauses of both GUI converters: each logs and returns False
GuiHandlers(st, opened, lines, log) ==
    CASE st = "ok" -> Result("True", "", opened, lines, log \o <<Msg("saved", 0)>>)
      [] st = "False" -> Result("False", "", opened, lines, log)
      [] st = "ValueError" ->
           Result("False", "", opened, lines, log \o <<Msg("error_invalid_data", 0)>>)
      [] st = "ExpatError" ->
           Result("False", "", opened, lines, log \o <<Msg("error_invalid_xml", 0)>>)
      [] st = "FileNotFoundError" ->
           Result("False", "", opened, lines, log \o <<Msg("error_not_found", 0)>>)
      [] OTHER ->
           Result("False", "", opened, lines, log \o <<Msg("error_unexpected", 0)>>)

convert_ndpa_file(in) ==
    IF in.state = "missing"
    THEN GuiHandlers("FileNotFoundError", FALSE, <<>>, <<>>)
    ELSE IF in.state = "malformed" \/ in.fmt # "xml"
    THEN GuiHandlers("ExpatError", FALSE, <<>>, <<>>)
    ELSE
    LET n == Len(in.regions)
    IN  IF n < MinRegions
        THEN Result("False", "", FALSE, <<>>,
                    <<Msg("found_regions", n), Msg("error_need_3", n)>>)
        ELSE With(GuiWrite(in.regions), LAMBDA w :
               GuiHandlers(w.st, TRUE, w.lines, <<Msg("found_regions", n)>> \o w.log))

---------------------------------------------------------------------------
(* MicroBridgeConverterApp.convert_csv_file (GUI) *)

\* A raw CSV row.  empty: csv.reader gives [] for it; full: it has at least
\* 7 columns; x, y: the text of columns 5 and 6, a number given in tenths of
\* a micrometre (Num(1006) is the text "100.6").
Row(empty, full, x, y) == [empty |-> empty, full |-> full, x |-> x, y |-> y]

EmptyRow == Row(TRUE, FALSE, Absent, Absent)
GoodRowA == Row(FALSE, TRUE, Num(1006), Num(2004))
GoodRowB == Row(FALSE, TRUE, Num(25), Num(0 - 15))
ShortRow == Row(FALSE, FALSE, Absent, Absent)
JunkRow  == Row(FALSE, TRUE, Num(1006), Junk)
NaNRow   == Row(FALSE, TRUE, Num(1006), NaN)

RegularRows == {EmptyRow, GoodRowA, GoodRowB}
WideRows == {GoodRowA, ShortRow, JunkRow, NaNRow}

RowSeqs == SeqsUpTo(RegularRows, MaxRows) \cup SeqsUpTo(WideRows, MaxWideRows)

CsvInput(state, rows) ==
    [fmt |-> "csv", state |-> state, regions |-> <<>>, rows |-> rows]

CsvInputs ==
    {CsvInput("missing", <<>>)} \cup {CsvInput("ok", rs) : rs \in RowSeqs}

\* the fewest non-empty rows: if len(rows) < 4
MinCsvRows == 4
\* the fewest data rows: if len(data) < 3
MinCsvData == 3

\* What csv.reader yields for a file.  An XML text read as CSV gives one short
\* row per line: the declaration, the root's two tags and a line per region
\* for a parsed document, the declaration and a broken line otherwise.
TextRows(in) ==
    IF in.fmt = "csv" THEN in.rows
    ELSE IF in.state = "ok" THEN [i \in 1..(Len(in.regions) + 3) |-> ShortRow]
    ELSE <<ShortRow, ShortRow>>

\* rows = [r for r in rdr if r]
NonEmptyRows(rows) == SelectSeq(rows, LAMBDA r : ~r.empty)

\* x_val, y_val of a data row: float(row[5]), float(row[6]), both 0.0 when
\* the row is short or either float() raises
CsvPair(row) ==
    IF row.full /\ PyFloat(row.x).st # "ValueError" /\ PyFloat(row.y).st # "ValueError"
    THEN [x |-> PyFloat(row.x), y |-> PyFloat(row.y), soft |-> FALSE]
    ELSE [x |-> [st |-> "ok", v |-> 0], y |-> [st |-> "ok", v |-> 0], soft |-> TRUE]

\* the value divided by 1000 before rounding
CsvRoundMutant(v) == RoundHalfEven(v, 10 * NmPerUm)

\* int(round(x_val)) of a value in tenths
CsvRound(v) == RoundHalfEven(v, 10)

\* The two write calls of one pair, tagged tx and ty: int(round(..)) of a NaN
\* raises ValueError inside the format call, before that line is written.
CsvEmit(tx, ty, n, pair) ==
    IF pair.x.st = "nan" THEN [st |-> "ValueError", lines |-> <<>>]
    ELSE IF pair.y.st = "nan"
    THEN [st |-> "ValueError", lines |-> <<Line(tx, n, IntVal(CsvRound(pair.x.v)))>>]
    ELSE [st |-> "ok",
          lines |-> <<Line(tx, n, IntVal(CsvRound(pair.x.v))),
                      Line(ty, n, IntVal(CsvRound(pair.y.v)))>>]

RECURSIVE CsvCalLoop(_, _)
CsvCalLoop(data, k) ==
    IF k > 3 THEN [st |-> "ok", lines |-> <<>>]
    ELSE
    With(CsvEmit("X_CalibrationPoint", "Y_CalibrationPoint", k, CsvPair(data[k])),
         LAMBDA e :
    With(CsvCalLoop(data, k + 1), LAMBDA rest :
        IF e.st # "ok" THEN e
        ELSE [st |-> rest.st, lines |-> e.lines \o rest.lines]))

RECURSIVE CsvShapeLoop(_, _)
\* one single-point shape per data row after the third, numbered si - 2
CsvShapeLoop(data, idx) ==
    IF idx > Len(data) THEN [st |-> "ok", lines |-> <<>>]
    ELSE
    With(CsvEmit("X", "Y", 1, CsvPair(data[idx])), LAMBDA e :
    With(<<Line("Shape", ShapeNum(idx), IntVal(0)),
           Line("PointCount", 0, IntVal(1))>>, LAMBDA head :
    With(CsvShapeLoop(data, idx + 1), LAMBDA rest :
        IF e.st # "ok" THEN [st |-> e.st, lines |-> head \o e.lines]
        ELSE [st |-> rest.st,
              lines |-> head \o e.lines
                        \o <<Line("/Shape", ShapeNum(idx), IntVal(0))>> \o rest.lines])))

\* a count that takes the calibration rows for shapes too
CsvNumShapesMutant(data) == Len(data)

\* max(0, len(data) - 3)
CsvNumShapes(data) == IF Len(data) > 3 THEN Len(data) - 3 ELSE 0

\* the two lines logged after ShapeCount is written, before the shape loop
CsvNotes(data) ==
    <<Msg("csv_centroids_only", 0), Msg("csv_single_point_shapes", CsvNumShapes(data))>>

\* the with-block of the output file; nothing in either loop logs
CsvWrite(data) ==
    With(CsvCalLoop(data, 1), LAMBDA cal :
    With(CsvShapeLoop(data, 4), LAMBDA shp :
    With(<<Line("ShapeCount", 0, IntVal(CsvNumShapes(data)))>>, LAMBDA count :
        IF cal.st # "ok"
        THEN [st |-> "Exception", lines |-> Header \o cal.lines, log |-> <<>>]
        ELSE IF shp.st # "ok"
        THEN [st |-> "Exception", lines |-> Header \o cal.lines \o count \o shp.lines,
              log |-> CsvNotes(data)]
        ELSE [st |-> "ok",
              lines |-> Header \o cal.lines \o count \o shp.lines
                        \o <<Plain("/ImageData")>>,
              log |-> CsvNotes(data)])))

convert_csv_file(in) ==
    IF in.state = "missing"
    THEN GuiHandlers("FileNotFoundError", FALSE, <<>>, <<>>)
    ELSE
    With(NonEmptyRows(TextRows(in)), LAMBDA rows :
    With(<<Msg("found_rows", Len(rows))>>, LAMBDA found :
        IF Len(rows) < MinCsvRows
        THEN Result("False", "", FALSE, <<>>, found \o <<Msg("error_need_4_rows", Len(rows))>>)
        ELSE IF Len(Tail(rows)) < MinCsvData
        THEN Result("False", "", FALSE, <<>>,
                    found \o <<Msg("error_need_3_rows", Len(Tail(rows)))>>)
        ELSE With(CsvWrite(Tail(rows)), LAMBDA w :
             With(GuiHandlers(w.st, TRUE, w.lines, found \o w.log), LAMBDA r :
               IF w.st = "ok"
               THEN [r EXCEPT !.log = @ \o <<Msg("csv_lacks_polygons", 0)>>]
               ELSE r))))

---------------------------------------------------------------------------
(* One conversion call on a fresh output path *)

NoCall == [tool |-> "none", in |-> XmlInput("missing", <<>>), allow |-> FALSE,
           script |-> FALSE]
NoResult == Result("none", "", FALSE, <<>>, <<>>)
NoFile == [exists |-> FALSE, lines |-> <<>>]
\* no batch begun.  kind: which program runs the batch; files: the list the
\* loop iterates; pc: where the loop is; idx: iterations finished;
\* attempted: the positions handed to a converter, in order; rets: what each
\* gave; stop: _stop_event; cancelled: the loop left through its break;
\* reported: the count returned or put in the "done" message, -1 before that;
\* closed: the window was destroyed; stopAt: where the worker was when the
\* stop event was set; outdir: output_folder.
NoBatch ==
    [kind |-> "none", files |-> <<>>, fmt |-> "auto", allow |-> FALSE,
     script |-> FALSE, pc |-> "idle", idx |-> 0, successful |-> 0,
     attempted |-> <<>>, rets |-> <<>>, stop |-> FALSE, cancelled |-> FALSE,
     reported |-> 0 - 1, closed |-> FALSE, stopAt |-> "never", outdir |-> ""]

\* the output paths of the files converted in one process
Paths == {"a_LMD", "b_LMD"}

\* no call made yet: no output file at any path
NoPast == [files |-> [p \in Paths |-> NoFile], done |-> <<>>]

\* an output file opened for appending
AfterMutant(r, before) ==
    IF r.opened THEN [exists |-> TRUE, lines |-> before.lines \o r.lines] ELSE before

\* the file at the output path after a call that gave r
After(r, before) ==
    IF r.opened THEN [exists |-> TRUE, lines |-> r.lines] ELSE before

\* the worker before start_conversion has made a thread
NoWorker ==
    [pc |-> "none", listed |-> <<>>, total |-> 0, snap |-> <<>>, idx |-> 0,
     successful |-> 0, cancelled |-> FALSE, summary |-> ""]

\* The window as __init__ leaves it: no files, the convert button enabled, the
\* stop event clear, no worker thread, an empty queue and the first poll
\* scheduled.
NoApp ==
    [files |-> <<>>, button |-> "normal", main |-> "idle", stop |-> FALSE,
     w |-> NoWorker, queue |-> <<>>, sent |-> <<>>, handled |-> <<>>,
     after |-> FALSE, poller |-> "scheduled", starts |-> 0, events |-> 0]

Init ==
    /\ call = NoCall
    /\ res = NoResult
    /\ disk = NoFile
    /\ batch = NoBatch
    /\ past = NoPast
    /\ app = NoApp

CallCli ==
    /\ call.tool = "none"
    /\ \E in \in XmlInputs, allow \in BOOLEAN, script \in BOOLEAN :
         \E r \in {convert_ndpa_to_lmd(in, allow, script)} :
             /\ call' = [tool |-> "cli", in |-> in, allow |-> allow, script |-> script]
             /\ res' = r
             /\ disk' = After(r, disk)
    /\ UNCHANGED <<batch, past, app>>

CallGui ==
    /\ call.tool = "none"
    /\ \E in \in XmlInputs :
         \E r \in {convert_ndpa_file(in)} :
             /\ call' = [tool |-> "gui", in |-> in, allow |-> FALSE, script |-> FALSE]
             /\ res' = r
             /\ disk' = After(r, disk)
    /\ UNCHANGED <<batch, past, app>>

CallCsv ==
    /\ call.tool = "none"
    /\ \E in \in CsvInputs :
         \E r \in {convert_csv_file(in)} :
             /\ call' = [tool |-> "csv", in |-> in, allow |-> FALSE, script |-> FALSE]
             /\ res' = r
             /\ disk' = After(r, disk)
    /\ UNCHANGED <<batch, past, app>>

Next == CallCli \/ CallGui \/ CallCsv

Spec == Init /\ [][Next]_vars

---------------------------------------------------------------------------
(* Batches: batch_convert_directory (CLI), _worker_convert_files (GUI) *)

\* a file of a batch: the folder, the stem and the extension of its path, and
\* its content
File(dir, stem, ext, in) == [dir |-> dir, stem |-> stem, ext |-> ext, in |-> in]

GoodXml == XmlInput("ok", <<CircleA, CircleA, CircleA, Freehand(1)>>)
GoodCsv == CsvInput("ok", <<GoodRowA, GoodRowA, GoodRowB, GoodRowA>>)

\* The files a batch is drawn from: a convertible a.ndpa, one whose second
\* calibration region cannot be resolved, one whose second calibration region
\* makes the CLI index an empty list, a truncated .ndpa, a.csv beside a.ndpa,
\* the same CSV under .txt and under .ndpa, and an a.NDPA in another folder.
BatchFiles ==
    {File("d1", "a", "ndpa", GoodXml),
     File("d1", "b", "ndpa", XmlInput("ok", <<CircleA, Ruler, CircleA>>)),
     File("d1", "c", "ndpa", XmlInput("ok", <<CircleA, LackX, CircleA>>)),
     File("d1", "d", "ndpa", XmlInput("malformed", <<>>)),
     File("d1", "a", "csv", GoodCsv),
     File("d1", "e", "txt", GoodCsv),
     File("d1", "f", "ndpa", GoodCsv),
     File("d2", "a", "NDPA", GoodXml)}

\* The lists of files a batch is started on: os.listdir names each entry of
\* the directory once, and the window's list takes a path only when it does
\* not hold it yet.
FileLists ==
    {fs \in SeqsUpTo(BatchFiles, MaxBatch) :
        \A i, j \in DOMAIN fs : i # j => fs[i] # fs[j]}

\* filepath.lower(), as far as the extension goes
Lower(ext) == IF ext = "NDPA" THEN "ndpa" ELSE ext

\* the values of output_folder: none selected, or a folder
OutputFolders == {"", "out"}

\* out_path of both GUI converters: <stem>_LMD.xml in the output folder, or in
\* the folder of the input when none is selected
OutPath(f, folder) == [dir |-> IF folder = "" THEN f.dir ELSE folder, stem |-> f.stem]

Formats == {"auto", "ndpa", "csv"}

\* a count that takes everything but a returned False for a success
CountedMutant(r) == IF r.ret = "False" THEN 0 ELSE 1

\* if <the converter returned true>: successful += 1
Counted(r) == IF r.ret = "True" THEN 1 ELSE 0

\* ndpa_files: the directory entries whose name ends in ".ndpa"
NdpaFiles(dir) == SelectSeq(dir, LAMBDA f : f.ext = "ndpa")

RECURSIVE CliBatchLoop(_, _, _, _)
\* The loop of batch_convert_directory from file i on.  An exception that
\* escapes convert_ndpa_to_lmd is caught by the loop's except clause.
CliBatchLoop(files, allow, script, i) ==
    IF i > Len(files)
    THEN [successful |-> 0, attempted |-> <<>>, rets |-> <<>>]
    ELSE
    With(convert_ndpa_to_lmd(files[i].in, allow, script), LAMBDA r :
    With(CliBatchLoop(files, allow, script, i + 1), LAMBDA rest :
        [successful |-> Counted(r) + rest.successful,
         attempted |-> <<i>> \o rest.attempted,
         rets |-> <<r.ret>> \o rest.rets]))

BatchConvertDirectory ==
    /\ batch.kind = "none"
    /\ \E dir \in FileLists, allow \in BOOLEAN, script \in BOOLEAN :
         \E files \in {NdpaFiles(dir)} :
         \E b \in {CliBatchLoop(files, allow, script, 1)} :
             batch' = [batch EXCEPT !.kind = "cli", !.files = files,
                                    !.allow = allow, !.script = script,
                                    !.pc = "done", !.idx = Len(files),
                                    !.successful = b.successful,
                                    !.attempted = b.attempted, !.rets = b.rets,
                                    !.reported = b.successful]
    /\ UNCHANGED <<call, res, disk, past, app>>

\* The pre-flight format check of start_conversion on files that exist and
\* can be read: a .ndpa must begin with the XML declaration, a .csv must not
\* hold one.
Preflight(files) ==
    \A i \in 1..Len(files) :
        /\ Lower(files[i].ext) = "ndpa" => files[i].in.fmt = "xml"
        /\ Lower(files[i].ext) = "csv" => files[i].in.fmt # "xml"

StartConversion ==
    /\ batch.kind = "none"
    /\ \E files \in FileLists, fmt \in Formats, folder \in OutputFolders :
         batch' = IF files = <<>> \/ ~Preflight(files)
                  THEN [batch EXCEPT !.kind = "gui", !.files = files,
                                     !.fmt = fmt, !.outdir = folder,
                                     !.pc = "refused"]
                  ELSE [batch EXCEPT !.kind = "gui", !.files = files,
                                     !.fmt = fmt, !.outdir = folder,
                                     !.pc = "loop", !.stop = FALSE]
    /\ UNCHANGED <<call, res, disk, past, app>>

\* a choice that lets the extension override the format
ConverterMutant(fmt, ext) ==
    IF ext \in {"ndpa", "csv"} THEN ext
    ELSE IF fmt \in {"ndpa", "csv"} THEN fmt
    ELSE "none"

\* which converter the worker picks for a file
Converter(fmt, ext) ==
    IF fmt = "ndpa" \/ (fmt = "auto" /\ ext = "ndpa") THEN "ndpa"
    ELSE IF fmt = "csv" \/ (fmt = "auto" /\ ext = "csv") THEN "csv"
    ELSE "none"

\* the try block of one iteration of the worker
GuiConvert(fmt, f) ==
    CASE Converter(fmt, Lower(f.ext)) = "ndpa" -> convert_ndpa_file(f.in)
      [] Converter(fmt, Lower(f.ext)) = "csv" -> convert_csv_file(f.in)
      [] OTHER -> Result("False", "", FALSE, <<>>, <<Msg("unknown_type", 0)>>)

\* The head of one iteration of the worker's loop: break when the stop event
\* is set, otherwise go on to the next file of the snapshot.
WorkerCheck ==
    /\ batch.kind = "gui"
    /\ batch.pc = "loop"
    /\ batch.idx < Len(batch.files)
    /\ batch' =
         IF batch.stop
         THEN [batch EXCEPT !.pc = "summary", !.cancelled = TRUE]
         ELSE [batch EXCEPT !.pc = "file"]
    /\ UNCHANGED <<call, res, disk, past, app>>

\* the loop's state once the file begun is converted and counted
FileResult ==
    With(GuiConvert(batch.fmt, batch.files[batch.idx + 1]), LAMBDA r :
        [batch EXCEPT !.pc = "loop",
                      !.idx = @ + 1,
                      !.successful = @ + Counted(r),
                      !.attempted = Append(@, batch.idx + 1),
                      !.rets = Append(@, r.ret)])

\* a conversion that gives the file up when the stop event is set
WorkerConvertMutant ==
    /\ batch.kind = "gui"
    /\ batch.pc = "file"
    /\ batch' = IF batch.stop
                THEN [batch EXCEPT !.pc = "summary", !.cancelled = TRUE]
                ELSE FileResult
    /\ UNCHANGED <<call, res, disk, past, app>>

\* The rest of the iteration: the try block and the counting.  Nothing in
\* it, nor in the converters it calls, reads the stop event.
WorkerConvert ==
    /\ batch.kind = "gui"
    /\ batch.pc = "file"
    /\ batch' = FileResult
    /\ UNCHANGED <<call, res, disk, past, app>>

\* After the loop: the "done" message carries the count unless the stop
\* event is set.
WorkerSummary ==
    /\ batch.kind = "gui"
    /\ \/ batch.pc = "summary"
       \/ batch.pc = "loop" /\ batch.idx = Len(batch.files)
    /\ batch' = [batch EXCEPT !.pc = "done",
                              !.reported = IF batch.stop THEN @ ELSE batch.successful]
    /\ UNCHANGED <<call, res, disk, past, app>>

\* _on_closing: with the worker alive the user is asked; a yes sets the stop
\* event and destroys the window, a no changes nothing.
OnClosing ==
    /\ batch.kind = "gui"
    /\ ~batch.closed
    /\ IF batch.pc \in {"loop", "file", "summary"}
       THEN \E response \in BOOLEAN :
              batch' = IF response
                       THEN [batch EXCEPT !.stop = TRUE, !.closed = TRUE,
                                          !.stopAt = batch.pc]
                       ELSE batch
       ELSE batch' = [batch EXCEPT !.closed = TRUE]
    /\ UNCHANGED <<call, res, disk, past, app>>

NextBatch ==
    \/ BatchConvertDirectory
    \/ StartConversion
    \/ WorkerCheck
    \/ WorkerConvert
    \/ WorkerSummary
    \/ OnClosing

SpecBatch == Init /\ [][NextBatch]_vars

---------------------------------------------------------------------------
(* Several conversion calls in one process *)

\* the most calls of one process
MaxCalls == 3

\* The documents converted: one that converts, one whose second calibration
\* region cannot be resolved, one with too few regions.
RepeatXml ==
    {GoodXml, XmlInput("ok", <<CircleA, Ruler, CircleA>>), XmlInput("ok", <<CircleA>>)}

\* The call of a converter on the input whose output path is path, given
\* back r: the output path holds what the earlier calls left there, the call
\* is recorded with the file it leaves.
Returned(tool, path, in, allow, script, r) ==
    /\ call' = [tool |-> tool, in |-> in, allow |-> allow, script |-> script]
    /\ res' = r
    /\ \E left \in {After(r, past.files[path])} :
         /\ disk' = left
         /\ past' = [files |-> [past.files EXCEPT ![path] = left],
                     done |-> Append(past.done,
                                 [tool |-> tool, path |-> path, in |-> in,
                                  allow |-> allow, script |-> script,
                                  ret |-> r.ret, exc |-> r.exc,
                                  opened |-> r.opened, lines |-> r.lines,
                                  file |-> left])]

\* sys is imported, or not, once for the process
SameProcess(script) ==
    \A i \in DOMAIN past.done : past.done[i].tool = "cli" => past.done[i].script = script

AgainCli ==
    /\ Len(past.done) < MaxCalls
    /\ \E path \in Paths, in \in RepeatXml, allow \in BOOLEAN, script \in BOOLEAN :
         /\ SameProcess(script)
         /\ \E r \in {convert_ndpa_to_lmd(in, allow, script)} :
              Returned("cli", path, in, allow, script, r)
    /\ UNCHANGED <<batch, app>>

AgainGui ==
    /\ Len(past.done) < MaxCalls
    /\ \E path \in Paths, in \in RepeatXml :
         \E r \in {convert_ndpa_file(in)} :
             Returned("gui", path, in, FALSE, FALSE, r)
    /\ UNCHANGED <<batch, app>>

AgainCsv ==
    /\ Len(past.done) < MaxCalls
    /\ \E path \in Paths, in \in {GoodCsv, GoodXml} :
         \E r \in {convert_csv_file(in)} :
             Returned("csv", path, in, FALSE, FALSE, r)
    /\ UNCHANGED <<batch, app>>

NextAgain == AgainCli \/ AgainGui \/ AgainCsv

SpecAgain == Init /\ [][NextAgain]_vars

---------------------------------------------------------------------------
(* Reading an output document and an input, for the properties below *)

\* the lines of a document with one of the tags
Tagged(lines, tags) == SelectSeq(lines, LAMBDA l : l.tag \in tags)

\* the document is written through the closing ImageData tag
Complete(lines) == lines # <<>> /\ lines[Len(lines)].tag = "/ImageData"

\* the numbers of the Shape_N blocks, in the order written
ShapeNums(lines) ==
    LET open == Tagged(lines, {"Shape"}) IN [j \in 1..Len(open) |-> open[j].n]

\* the value written in ShapeCount
ShapeCountOf(lines) == Tagged(lines, {"ShapeCount"})[1].v.i

XmlCall == call.tool \in {"cli", "gui"}
Succeeded == res.ret = "True"

\* the regions after the third whose region r satisfies P, in source order
ShapeRegions(regions, P(_)) ==
    SelectSeq([i \in 1..Len(regions) |-> i], LAMBDA i : i > 3 /\ P(regions[i]))

\* the region holds a point element, in a pointlist or not
HasPoint(r) == Len(r.pts) > 0
\* the region's pointlist holds a point element
HasListPoint(r) == r.plist /\ Len(r.pts) > 0

\* a coordinate text float() accepts; an element with no text counts as 0
Parseable(t) == t.k \in {"num", "nan", "notext"}

\* neither the circle annotation nor the first point of the region gives a
\* parseable x and y
MissingCal(r) ==
    /\ ~(r.ann /\ Parseable(r.cx) /\ Parseable(r.cy))
    /\ ~(Len(r.pts) > 0 /\ Parseable(r.pts[1].x) /\ Parseable(r.pts[1].y))

---------------------------------------------------------------------------
(* C1 *)

\* C1: after a successful XML conversion (CLI or GUI) the Shape_N blocks are
\* numbered 1..ShapeCount without gaps, in the order written, whatever
\* regions after the third were dropped.
C1_ShapesNumberedFromOne ==
    (XmlCall /\ Succeeded) =>
        ShapeNums(disk.lines) = [j \in 1..ShapeCountOf(disk.lines) |-> j]

---------------------------------------------------------------------------
(* C2 *)

\* C2 as stated: after a successful XML conversion ShapeCount equals the
\* number of Shape_N blocks written, and both equal the number of regions
\* after the third that hold at least one point element.
C2_CountIsRegionsWithPoint ==
    (XmlCall /\ Succeeded) =>
        /\ ShapeCountOf(disk.lines) = Len(ShapeNums(disk.lines))
        /\ ShapeCountOf(disk.lines) = Len(ShapeRegions(call.in.regions, HasPoint))

---------------------------------------------------------------------------
(* C3 *)

\* C3: when one of the first three regions has no resolvable coordinates and
\* placeholders are not allowed, the XML conversion returns False and there
\* is no file at the output path afterwards.
C3_MissingCalLeavesNoFile ==
    ( /\ XmlCall /\ ~call.allow
      /\ call.in.state = "ok" /\ Len(call.in.regions) >= 3
      /\ \E k \in 1..3 : MissingCal(call.in.regions[k]) )
    => (res.ret = "False" /\ ~disk.exists)

---------------------------------------------------------------------------
(* C4 *)

\* C4: after any conversion call (XML or CSV), however it ended, the output
\* file is written through the closing ImageData tag or does not exist.
C4_CompleteOrAbsent ==
    (call.tool # "none" /\ disk.exists) => Complete(disk.lines)

---------------------------------------------------------------------------
(* C5 *)

\* the data rows of a CSV input: its non-empty rows but the first
DataRows(rows) ==
    LET n == Cardinality({i \in DOMAIN rows : ~rows[i].empty})
    IN  IF n = 0 THEN 0 ELSE n - 1

\* C5: an XML input with fewer than 3 regions and a CSV input with fewer than
\* 3 data rows make the conversion return False without creating the output
\* file; with exactly 3 regions or data rows the input is taken: the
\* conversion goes on to write the output and logs no too-few error.
C5_FewerThanThreeRejected ==
    /\ (XmlCall /\ call.in.state = "ok" /\ Len(call.in.regions) < 3)
          => (res.ret = "False" /\ ~disk.exists)
    /\ (call.tool = "csv" /\ call.in.state = "ok" /\ DataRows(call.in.rows) < 3)
          => (res.ret = "False" /\ ~disk.exists)
    /\ (XmlCall /\ call.in.state = "ok" /\ Len(call.in.regions) = 3)
          => (res.opened /\ \A i \in DOMAIN res.log : res.log[i].m # "error_need_3")
    /\ (call.tool = "csv" /\ call.in.state = "ok" /\ DataRows(call.in.rows) = 3)
          => (res.opened /\ \A i \in DOMAIN res.log :
                               res.log[i].m \notin {"error_need_4_rows", "error_need_3_rows"})

\* an XML input of exactly three regions converted with success
C5_Witness ==
    XmlCall /\ call.in.state = "ok" /\ Len(call.in.regions) = 3 /\ Succeeded

---------------------------------------------------------------------------
(* C6 *)

\* lines with the values of calibration point k set to 0
ZeroCal(lines, k) ==
    [j \in DOMAIN lines |->
        IF lines[j].tag \in {"X_CalibrationPoint", "Y_CalibrationPoint"} /\ lines[j].n = k
        THEN [lines[j] EXCEPT !.v = IntVal(0)] ELSE lines[j]]

\* C6: with allow_missing_calibration=True, a CLI call on an input whose
\* calibration region k has no resolvable coordinates succeeds whenever it
\* would with a resolvable region in that place, writes 0 for both values of
\* point k, logs the placeholder warning for k, and writes everything else
\* as it would with the resolvable region.
C6_PlaceholderForMissing ==
    \A k \in 1..3 :
        ( /\ call.tool = "cli" /\ call.allow
          /\ call.in.state = "ok" /\ Len(call.in.regions) >= 3
          /\ MissingCal(call.in.regions[k]) )
        => LET other == convert_ndpa_to_lmd(
                           [call.in EXCEPT !.regions[k] = CircleA], TRUE, call.script)
           IN  other.ret = "True" =>
                 /\ res.ret = "True"
                 /\ disk.lines = ZeroCal(other.lines, k)
                 /\ \E i \in DOMAIN res.log : res.log[i] = Msg("placeholder_warning", k)

---------------------------------------------------------------------------
(* C7 *)

CalTags == {"X_CalibrationPoint", "Y_CalibrationPoint"}

\* C7: the output of every conversion that returns True holds exactly six
\* calibration lines, X1,Y1,X2,Y2,X3,Y3 in this order, each once, and
\* ShapeCount comes after them.
C7_SixCalibrationLines ==
    Succeeded =>
        LET cal == Tagged(disk.lines, CalTags)
        IN  /\ [j \in 1..Len(cal) |-> <<cal[j].tag, cal[j].n>>]
                 = << <<"X_CalibrationPoint", 1>>, <<"Y_CalibrationPoint", 1>>,
                      <<"X_CalibrationPoint", 2>>, <<"Y_CalibrationPoint", 2>>,
                      <<"X_CalibrationPoint", 3>>, <<"Y_CalibrationPoint", 3>> >>
            /\ \A i, j \in DOMAIN disk.lines :
                 (disk.lines[i].tag \in CalTags /\ disk.lines[j].tag = "ShapeCount") => i < j
            /\ Len(Tagged(disk.lines, {"ShapeCount"})) = 1

\* a success that wrote a placeholder for a missing calibration point
C7_Witness ==
    /\ Succeeded /\ call.tool = "cli" /\ call.allow
    /\ \E k \in 1..3 : MissingCal(call.in.regions[k])

---------------------------------------------------------------------------
(* C8 *)

\* C8: called as a library function (not run as a script),
\* convert_ndpa_to_lmd returns True or False on every input and lets no
\* exception escape.
C8_LibraryCallReturnsBoolean ==
    (call.tool = "cli" /\ ~call.script) => res.ret \in {"True", "False"}

---------------------------------------------------------------------------
(* C10 *)

\* the micrometre value of a coordinate text of a converted point
Um(t) == IF t.k = "num" THEN NmToUm(t.v) ELSE 0

\* the points the converter called reads of region r
PointsRead(r) == IF call.tool = "gui" THEN GuiPts(r) ELSE r.pts

\* the regions the shape blocks of the output come from, in source order
Survivors ==
    IF call.tool = "gui" THEN ShapeRegions(call.in.regions, HasListPoint)
    ELSE ShapeRegions(call.in.regions, HasPoint)

\* the positions of the lines that open a shape block
BlockStarts(lines) == {p \in DOMAIN lines : lines[p].tag = "Shape"}

\* the block opened at line p is PointCount = c, then X_1,Y_1 .. X_c,Y_c,
\* then the closing tag
WellFormedBlock(lines, p) ==
    /\ p + 1 <= Len(lines) /\ lines[p + 1].tag = "PointCount"
    /\ LET c == lines[p + 1].v.i
       IN  /\ p + 2 * c + 2 <= Len(lines)
           /\ \A i \in 1..c :
                /\ lines[p + 2 * i].tag = "X" /\ lines[p + 2 * i].n = i
                /\ lines[p + 2 * i + 1].tag = "Y" /\ lines[p + 2 * i + 1].n = i
           /\ lines[p + 2 * c + 2].tag = "/Shape"

\* C10: in every Shape_N block of a successful output PointCount equals the
\* number of X_i/Y_i pairs that follow in the block, the pairs are indexed
\* 1..PointCount without gaps, and (XML) the i-th pair is the i-th point of
\* the region the block comes from.
C10_PointCountMatchesPairs ==
    Succeeded =>
        /\ \A p \in BlockStarts(disk.lines) : WellFormedBlock(disk.lines, p)
        /\ XmlCall =>
             \A p \in BlockStarts(disk.lines) :
                LET j == Cardinality({q \in BlockStarts(disk.lines) : q <= p})
                    pts == PointsRead(call.in.regions[Survivors[j]])
                IN  /\ disk.lines[p + 1].v.i = Len(pts)
                    /\ \A i \in 1..Len(pts) :
                         /\ disk.lines[p + 2 * i].v = IntVal(Um(pts[i].x))
                         /\ disk.lines[p + 2 * i + 1].v = IntVal(Um(pts[i].y))

\* a successful XML conversion that wrote a block of two points or more
C10_Witness ==
    /\ XmlCall /\ Succeeded
    /\ \E p \in BlockStarts(disk.lines) : disk.lines[p + 1].v.i >= 2

---------------------------------------------------------------------------
(* C9 *)

\* the positions 1..n in order
UpTo(n) == [i \in 1..n |-> i]

\* how many of the results are True
TrueCount(rets) == Cardinality({i \in 1..Len(rets) : rets[i] = "True"})

\* C9: in both batch loops the files are handed to the converter one at a
\* time in list order, each once; a file that fails, or whose conversion
\* raises, does not keep the later files from being attempted: a batch that
\* ends without the loop having been cancelled has attempted every file; and
\* the success count, also the one reported, is the number of conversions
\* that returned True.
C9_BatchAttemptsEveryFile ==
    /\ batch.attempted = UpTo(Len(batch.attempted))
    /\ Len(batch.attempted) <= Len(batch.files)
    /\ Len(batch.rets) = Len(batch.attempted)
    /\ batch.successful = TrueCount(batch.rets)
    /\ batch.pc = "done" /\ ~batch.cancelled
         => Len(batch.attempted) = Len(batch.files)
    /\ batch.reported >= 0 => batch.reported = TrueCount(batch.rets)

\* a finished CLI batch whose first conversion raised and whose second
\* returned True, and was counted
C9_Witness ==
    /\ batch.kind = "cli"
    /\ batch.pc = "done"
    /\ Len(batch.files) = MaxBatch
    /\ batch.rets[1] = "Raised"
    /\ batch.rets[2] = "True"
    /\ batch.rets[3] = "False"
    /\ batch.successful = 1

---------------------------------------------------------------------------
(* C11 *)

\* the XML converter of the call made, run on other regions with the same flags
Reconvert(regions) ==
    IF call.tool = "gui" THEN convert_ndpa_file(XmlInput("ok", regions))
    ELSE convert_ndpa_to_lmd(XmlInput("ok", regions), call.allow, call.script)

\* the lines of calibration point k
CalPair(lines, k) ==
    SelectSeq(lines, LAMBDA l : l.tag \in {"X_CalibrationPoint", "Y_CalibrationPoint"}
                                 /\ l.n = k)

\* the lines of the shape blocks
ShapePart(lines) == Tagged(lines, {"Shape", "PointCount", "X", "Y", "/Shape"})

\* C11: roles are positional.  After a successful XML conversion calibration
\* point k is what the region at position k alone gives (the same lines as for
\* an input made of that region three times), the shape blocks are what the
\* regions after the third alone give (the same as with three plain circles
\* before them), every block comes from a region after the third, and the
\* blocks follow the source order.
C11_RolesArePositional ==
    (XmlCall /\ Succeeded) =>
        LET rs == call.in.regions
            nums == ShapeNums(disk.lines)
        IN  /\ \A k \in 1..3 :
                 CalPair(disk.lines, k)
                   = CalPair(Reconvert(<<rs[k], rs[k], rs[k]>>).lines, k)
            /\ ShapePart(disk.lines)
                 = ShapePart(Reconvert(<<CircleA, CircleA, CircleA>>
                                       \o SubSeq(rs, 4, Len(rs))).lines)
            /\ \A j \in DOMAIN nums : nums[j] + 3 \in 4..Len(rs)
            /\ \A i, j \in DOMAIN nums : i < j => nums[i] < nums[j]

\* a success whose first calibration region is a freehand outline and whose
\* regions after the third hold a circle and a shape that was written
C11_Witness ==
    /\ XmlCall /\ Succeeded
    /\ Len(call.in.regions[1].pts) > 0
    /\ \E i \in 4..Len(call.in.regions) : call.in.regions[i] = CircleA
    /\ ShapeCountOf(disk.lines) > 0

---------------------------------------------------------------------------
(* C12 *)

\* a coordinate element that gives a number: decimal text, or no text (0)
Numeric(t) == t.k \in {"num", "notext"}

\* the circle annotation's own x and y give two numbers
CircleOk(r) == r.ann /\ Numeric(r.cx) /\ Numeric(r.cy)

\* the first point the converter called looks at gives two numbers
PointOk(r) ==
    /\ PointsRead(r) # <<>>
    /\ Numeric(PointsRead(r)[1].x) /\ Numeric(PointsRead(r)[1].y)

\* the values written for calibration point k, X then Y
CalValues(lines, k) ==
    [j \in 1..Len(CalPair(lines, k)) |-> CalPair(lines, k)[j].v]

\* C12: for each calibration region of a successful XML conversion the
\* circle annotation's x/y is written whenever it gives two numbers; when it
\* does not, the first point's x/y is written if that gives two numbers; and
\* the point is missing (placeholder 0,0 under the allow flag, no success
\* otherwise) exactly when neither does.  The missing-coordinates message is
\* printed for a region only when neither strategy gives two numbers.
C12_CircleThenPointlist ==
    /\ (XmlCall /\ Succeeded) =>
         \A k \in 1..3 :
            LET r == call.in.regions[k]
                got == CalValues(disk.lines, k)
            IN  /\ CircleOk(r) => got = <<IntVal(Um(r.cx)), IntVal(Um(r.cy))>>
                /\ (~CircleOk(r) /\ PointOk(r)) =>
                      got = <<IntVal(Um(PointsRead(r)[1].x)),
                              IntVal(Um(PointsRead(r)[1].y))>>
                /\ (~CircleOk(r) /\ ~PointOk(r)) =>
                      /\ call.allow
                      /\ got = <<IntVal(0), IntVal(0)>>
                      /\ \E i \in DOMAIN res.log : res.log[i] = Msg("placeholder_warning", k)
    /\ (XmlCall /\ call.in.state = "ok" /\ Len(call.in.regions) >= 3) =>
         \A k \in 1..3 :
            (\E i \in DOMAIN res.log : res.log[i] = Msg("cal_no_coordinates", k))
              => (~CircleOk(call.in.regions[k]) /\ ~PointOk(call.in.regions[k]))

---------------------------------------------------------------------------
(* C13 *)

\* u is the integer nearest to v / unit, the even one of the two when v lies
\* halfway between them
NearestEven(v, unit, u) ==
    LET d == IF unit * u >= v THEN unit * u - v ELSE v - unit * u
    IN  /\ 2 * d <= unit
        /\ (2 * d = unit) => (u % 2 = 0)

\* u is round(v / 1000)
IsRoundOf(v, u) == NearestEven(v, NmPerUm, u)

\* the written value val is the rounded micrometre value of the text t
WrittenRound(t, val) == t.k = "num" /\ ~val.none /\ IsRoundOf(t.v, val.i)

\* every coordinate text of the input is an integer number of nanometres
IntegerInput(regions) == \A i \in DOMAIN regions : regions[i] \in RegularRegions

\* C13: in a successful conversion of an XML input whose coordinates are all
\* integer nanometre values, each calibration pair taken from the input and
\* every vertex of every shape is written as round(value_nm / 1000), ties to
\* the even integer, for positive and negative values alike.
C13_XmlRoundsNmToUm ==
    (XmlCall /\ Succeeded /\ IntegerInput(call.in.regions)) =>
        /\ \A k \in 1..3 :
             LET r == call.in.regions[k]
                 got == CalPair(disk.lines, k)
             IN  /\ Len(got) = 2
                 /\ r.cx.k = "num" =>
                      WrittenRound(r.cx, got[1].v) /\ WrittenRound(r.cy, got[2].v)
                 /\ (r.cx.k # "num" /\ r.pts # <<>>) =>
                      /\ WrittenRound(r.pts[1].x, got[1].v)
                      /\ WrittenRound(r.pts[1].y, got[2].v)
        /\ \A p \in BlockStarts(disk.lines) :
             LET j == Cardinality({q \in BlockStarts(disk.lines) : q <= p})
                 pts == call.in.regions[Survivors[j]].pts
             IN  /\ disk.lines[p + 1].v.i = Len(pts)
                 /\ \A i \in 1..Len(pts) :
                      /\ WrittenRound(pts[i].x, disk.lines[p + 2 * i].v)
                      /\ WrittenRound(pts[i].y, disk.lines[p + 2 * i + 1].v)

\* a successful conversion that wrote the ties 1500 and 2500 of a circle as
\* calibration values and the negative tie -2500 as a vertex
C13_Witness ==
    /\ XmlCall /\ Succeeded /\ IntegerInput(call.in.regions)
    /\ call.in.regions[1] = CircleA
    /\ CalValues(disk.lines, 1) = <<IntVal(2), IntVal(2)>>
    /\ \E i \in 4..Len(call.in.regions) : call.in.regions[i] = Freehand(MaxPts)
    /\ \E p \in DOMAIN disk.lines :
         /\ disk.lines[p].tag = "Y" /\ disk.lines[p].n = 2
         /\ disk.lines[p].v = IntVal(0 - 2)

---------------------------------------------------------------------------
(* C14 *)

CsvCall == call.tool = "csv"

\* the data rows of the CSV converted: the non-empty rows after the header
CsvData == Tail(NonEmptyRows(TextRows(call.in)))

\* the coordinate lines of a document, in the order written
CoordLines(lines) ==
    Tagged(lines, {"X_CalibrationPoint", "Y_CalibrationPoint", "X", "Y"})

\* both coordinate columns of the row hold a decimal number
NumericRow(row) == row.full /\ row.x.k = "num" /\ row.y.k = "num"

\* the written value val is round() of the column text t, a number of tenths
WrittenCsvRound(t, val) == ~val.none /\ NearestEven(t.v, 10, val.i)

\* C14: a successful CSV conversion writes one coordinate pair per data row,
\* calibration rows and shape rows alike, and the pair of a row with numeric
\* columns 5 and 6 is round(value) of each, ties to even, the value taken as
\* micrometres: it is not divided by 1000.
C14_CsvRoundsWithoutScaling ==
    (CsvCall /\ Succeeded) =>
        /\ Len(CoordLines(disk.lines)) = 2 * Len(CsvData)
        /\ \A k \in DOMAIN CsvData :
             NumericRow(CsvData[k]) =>
                /\ WrittenCsvRound(CsvData[k].x, CoordLines(disk.lines)[2 * k - 1].v)
                /\ WrittenCsvRound(CsvData[k].y, CoordLines(disk.lines)[2 * k].v)

\* a successful CSV conversion with 100.6, 200.4 as a calibration row,
\* written 101, 200, and the ties 2.5, -1.5 as a shape row, written 2, -2
C14_Witness ==
    /\ CsvCall /\ Succeeded
    /\ \E k \in 1..3 :
         /\ CsvData[k] = GoodRowA
         /\ CalValues(disk.lines, k) = <<IntVal(101), IntVal(200)>>
    /\ \E k \in 4..Len(CsvData) :
         /\ CsvData[k] = GoodRowB
         /\ CoordLines(disk.lines)[2 * k - 1].v = IntVal(2)
         /\ CoordLines(disk.lines)[2 * k].v = IntVal(0 - 2)

---------------------------------------------------------------------------
(* C15 *)

\* the row has fewer than 7 columns, or its column 5 or 6 is not a number
Degraded(row) == ~row.full \/ row.x.k # "num" \/ row.y.k # "num"

\* the CSV has its header and three data rows
EnoughRows ==
    call.in.state = "ok" /\ Len(NonEmptyRows(TextRows(call.in))) >= MinCsvRows

\* C15: a CSV with enough rows converts whatever its data rows hold: the call
\* returns True, the output is complete with one pair per data row, and the
\* pair of a row that is short or has a non-numeric column 5 or 6 is (0, 0),
\* both coordinates, also when only one column is bad.
C15_BadRowsDegradeToZero ==
    (CsvCall /\ EnoughRows) =>
        /\ Succeeded /\ disk.exists /\ Complete(disk.lines)
        /\ Len(CoordLines(disk.lines)) = 2 * Len(CsvData)
        /\ \A k \in DOMAIN CsvData :
             Degraded(CsvData[k]) =>
                /\ CoordLines(disk.lines)[2 * k - 1].v = IntVal(0)
                /\ CoordLines(disk.lines)[2 * k].v = IntVal(0)

---------------------------------------------------------------------------
(* C16 *)

\* the lines every successful CSV conversion logs, whatever its rows hold
RoutineLines ==
    {"found_rows", "csv_centroids_only", "csv_single_point_shapes", "saved",
     "csv_lacks_polygons"}

\* the other lines of a log
RowWarnings(log) == SelectSeq(log, LAMBDA l : l.m \notin RoutineLines)

\* C16: a successful CSV conversion logs a warning line for each data row it
\* degraded to (0, 0): the log holds, besides the lines every conversion
\* writes, at least one line per degraded row.
C16_SoftFailIsLogged ==
    (CsvCall /\ Succeeded) =>
        Len(RowWarnings(res.log)) >= Cardinality({k \in DOMAIN CsvData : Degraded(CsvData[k])})

---------------------------------------------------------------------------
(* C17 *)

\* the coordinate text with whitespace-only text taken as no text
Unblank(t) == IF t = Blank THEN NoText ELSE t

\* the region with every whitespace-only coordinate emptied
UnblankRegion(r) ==
    Region(r.ann, Unblank(r.cx), Unblank(r.cy),
           [i \in 1..Len(r.pts) |-> Pt(Unblank(r.pts[i].x), Unblank(r.pts[i].y))],
           r.plist, r.inAnn)

\* C17: a coordinate element without a text node and one with whitespace-only
\* text are read alike, as 0, and neither fails the file: converting a
\* document gives the result and the output it gives with every
\* whitespace-only coordinate emptied, and a calibration circle whose x and y
\* have no text is written as (0, 0).
C17_EmptyTextReadsAsZero ==
    (XmlCall /\ call.in.state = "ok") =>
        /\ LET emptied == Reconvert([i \in 1..Len(call.in.regions) |->
                                        UnblankRegion(call.in.regions[i])])
           IN  res.ret = emptied.ret /\ res.lines = emptied.lines
        /\ Succeeded =>
             \A k \in 1..3 :
                call.in.regions[k] = EmptyCircle =>
                    CalValues(disk.lines, k) = <<IntVal(0), IntVal(0)>>

---------------------------------------------------------------------------
(* C18 *)

\* the elements of the output that hold a number
ValueTags ==
    {"X_CalibrationPoint", "Y_CalibrationPoint", "ShapeCount", "PointCount", "X", "Y"}

\* C18: in every output file, complete or not, written by any converter each
\* calibration, ShapeCount, PointCount, X_i and Y_i element holds an integer;
\* no calibration pair is written with one coordinate an integer and the
\* other None.
C18_ValuesAreIntegers ==
    (call.tool # "none" /\ disk.exists) =>
        /\ \A p \in DOMAIN disk.lines :
             disk.lines[p].tag \in ValueTags => ~disk.lines[p].v.none
        /\ \A k \in 1..3 :
             Len(CalPair(disk.lines, k)) = 2 =>
                CalPair(disk.lines, k)[1].v.none = CalPair(disk.lines, k)[2].v.none

---------------------------------------------------------------------------
(* C19 *)

\* calls i and j convert the same input with the same converter and flag
SameCall(i, j) ==
    /\ past.done[i].tool = past.done[j].tool
    /\ past.done[i].path = past.done[j].path
    /\ past.done[i].in = past.done[j].in
    /\ past.done[i].allow = past.done[j].allow

\* C19: two calls of one process that convert the same input with the same
\* flag give the same result and write the same lines, and the output file
\* they leave is the same, whatever was converted before the first or
\* between the two, to the same output path or to another.
C19_SameInputSameOutput ==
    \A i, j \in DOMAIN past.done :
        (i < j /\ SameCall(i, j)) =>
            /\ past.done[i].ret = past.done[j].ret
            /\ past.done[i].exc = past.done[j].exc
            /\ past.done[i].opened = past.done[j].opened
            /\ past.done[i].lines = past.done[j].lines
            /\ past.done[i].opened => past.done[i].file = past.done[j].file

\* a document converted, then another one to the same output path, then the
\* first again, each writing its output
C19_Witness ==
    /\ Len(past.done) = 3
    /\ SameCall(1, 3)
    /\ past.done[2].in # past.done[1].in
    /\ past.done[2].path = past.done[1].path
    /\ \A i \in 1..3 : past.done[i].opened /\ past.done[i].ret = "True"
    /\ past.done[2].file # past.done[1].file

---------------------------------------------------------------------------
(* C20 *)

\* the worker has begun a file and not yet its result
FileBegun == batch.kind = "gui" /\ batch.pc = "file"

\* the step leaves the file begun as it is
FileStillRunning ==
    /\ batch'.pc = "file"
    /\ batch'.idx = batch.idx
    /\ batch'.attempted = batch.attempted
    /\ batch'.rets = batch.rets

\* the step ends the file begun with the result of its own conversion
FileRanToResult ==
    /\ batch'.pc = "loop"
    /\ batch'.attempted = Append(batch.attempted, batch.idx + 1)
    /\ batch'.rets =
         Append(batch.rets, GuiConvert(batch.fmt, batch.files[batch.idx + 1]).ret)

\* C20: the GUI worker acts on the stop event between files only.  A file
\* begun is left only with its own result, whether or not the stop event is
\* set meanwhile; the worker begins a file only with the stop event clear;
\* with the stop event set the worker's next step at the head of the loop
\* begins no file; and once the loop was left through its break no file is
\* attempted any more.
C20_StopOnlyBetweenFiles ==
    /\ [][FileBegun => (FileStillRunning \/ FileRanToResult)]_vars
    /\ [][(batch.pc = "loop" /\ batch'.pc = "file") => ~batch.stop]_vars
    /\ [][(batch.kind = "gui" /\ batch.pc = "loop" /\ batch.stop /\ batch'.pc # "loop")
            => (batch'.pc \in {"summary", "done"} /\ batch'.attempted = batch.attempted)]_vars
    /\ [][batch.cancelled =>
            /\ batch'.cancelled
            /\ batch'.attempted = batch.attempted
            /\ batch'.pc \in {"summary", "done"}]_vars

\* a batch stopped while its first file was being converted: that file has
\* its result, the break was taken before the second, the batch is over
C20_Witness ==
    /\ batch.kind = "gui"
    /\ batch.stopAt = "file"
    /\ batch.pc = "done"
    /\ batch.cancelled
    /\ Len(batch.files) >= 2
    /\ batch.attempted = <<1>>
    /\ Len(batch.rets) = 1

---------------------------------------------------------------------------
(* C21 *)

\* the positions of the Shape_N opening lines, in the order written
BlockSeq(lines) ==
    SelectSeq([p \in 1..Len(lines) |-> p], LAMBDA p : lines[p].tag = "Shape")

\* the pair a data row is written as: round() of its columns, or (0, 0)
RowWritten(row, x, y) ==
    IF NumericRow(row)
    THEN WrittenCsvRound(row.x, x) /\ WrittenCsvRound(row.y, y)
    ELSE x = IntVal(0) /\ y = IntVal(0)

\* C21: a successful conversion of a CSV with N data rows writes
\* ShapeCount = N - 3 and N - 3 shape blocks numbered 1..N-3 in row order;
\* block k is PointCount = 1, then the one pair X_1, Y_1 of data row k + 3,
\* then the closing tag.
C21_CsvOneShapePerRow ==
    (CsvCall /\ Succeeded) =>
        /\ Len(CsvData) >= MinCsvData
        /\ ShapeCountOf(disk.lines) = Len(CsvData) - 3
        /\ ShapeNums(disk.lines) = UpTo(Len(CsvData) - 3)
        /\ \A k \in 1..(Len(CsvData) - 3) :
             LET p == BlockSeq(disk.lines)[k]
             IN  /\ disk.lines[p + 1] = Line("PointCount", 0, IntVal(1))
                 /\ disk.lines[p + 2].tag = "X" /\ disk.lines[p + 2].n = 1
                 /\ disk.lines[p + 3].tag = "Y" /\ disk.lines[p + 3].n = 1
                 /\ RowWritten(CsvData[k + 3], disk.lines[p + 2].v, disk.lines[p + 3].v)
                 /\ disk.lines[p + 4] = Line("/Shape", k, IntVal(0))

\* a successful conversion of a CSV with five data rows, the fourth and the
\* fifth different: two blocks, (101, 200) then (2, -2)
C21_Witness ==
    /\ CsvCall /\ Succeeded
    /\ Len(CsvData) = 5
    /\ CsvData[4] = GoodRowA /\ CsvData[5] = GoodRowB
    /\ ShapeCountOf(disk.lines) = 2
    /\ Len(BlockSeq(disk.lines)) = 2
    /\ disk.lines[BlockSeq(disk.lines)[2] + 3].v = IntVal(0 - 2)

---------------------------------------------------------------------------
(* C22 *)

\* the conversion ended in CalibrationMissing: it stopped at a calibration
\* point that neither strategy resolved
StoppedInCalibration ==
    \E i \in DOMAIN res.log : res.log[i].m = "conversion_failed"

\* C22: the output document is written only after all three calibration
\* points are resolved and the shapes are filtered, so a conversion that
\* stops at a calibration point has written no line of it; and exactly the
\* conversions that return True leave a document written through its
\* closing tag.
C22_SerializedAfterResolving ==
    /\ (XmlCall /\ StoppedInCalibration) => (~res.opened /\ res.lines = <<>>)
    /\ call.tool # "none" =>
         (Succeeded <=> (res.opened /\ Complete(res.lines)))

---------------------------------------------------------------------------
(* C23 *)

\* the file at the output path of call j when the call began
FileBefore(j) ==
    LET earlier == {i \in 1..(j - 1) : past.done[i].path = past.done[j].path}
    IN  IF earlier = {} THEN NoFile
        ELSE past.done[CHOOSE i \in earlier : \A h \in earlier : h <= i].file

\* C23: a conversion that returns False leaves the file at its output path
\* as it found it: an output written there by an earlier call is neither
\* truncated nor overwritten.
C23_FailureKeepsEarlierOutput ==
    \A j \in DOMAIN past.done :
        past.done[j].ret = "False" => past.done[j].file = FileBefore(j)

---------------------------------------------------------------------------
(* C24 *)

\* the conversion of the file at position i of the batch opens its output
Opens(i) == GuiConvert(batch.fmt, batch.files[i]).opened

\* where the file at position i of the batch is written
OutPathOf(i) == OutPath(batch.files[i], batch.outdir)

\* C24: in a GUI batch no two files of the list whose conversions open an
\* output file are written to the same path, so no output of the batch is
\* overwritten by the conversion of another file of it.
C24_NoSharedOutputPath ==
    batch.kind = "gui" =>
        \A i, j \in DOMAIN batch.attempted :
            (i < j /\ Opens(i) /\ Opens(j)) => OutPathOf(i) # OutPathOf(j)

---------------------------------------------------------------------------
(* C28 *)

\* the converter the rule names for format fmt and the file f
Named(fmt, f) ==
    IF fmt = "ndpa" \/ (fmt = "auto" /\ Lower(f.ext) = "ndpa") THEN "ndpa"
    ELSE IF fmt = "csv" \/ (fmt = "auto" /\ Lower(f.ext) = "csv") THEN "csv"
    ELSE "neither"

\* C28: every file the GUI worker attempts is given to the NDPA converter
\* when the format is ndpa, or auto with a path ending in .ndpa in any case
\* of letters, to the CSV converter when the format is csv, or auto with a
\* path ending in .csv; any other file is not converted, opens no output and
\* counts as failed.  An explicit format is followed whatever the extension.
C28_ConverterByFormatThenExtension ==
    batch.kind = "gui" =>
        /\ \A i \in DOMAIN batch.rets :
             LET f == batch.files[i]
             IN  /\ Named(batch.fmt, f) = "ndpa" =>
                      batch.rets[i] = convert_ndpa_file(f.in).ret
                 /\ Named(batch.fmt, f) = "csv" =>
                      batch.rets[i] = convert_csv_file(f.in).ret
                 /\ Named(batch.fmt, f) = "neither" =>
                      batch.rets[i] = "False" /\ ~Opens(i)
        /\ batch.successful = TrueCount(batch.rets)

\* a batch under the explicit format csv whose first file, a .ndpa the NDPA
\* converter rejects, went through the CSV converter and returned True
C28_Witness ==
    /\ batch.kind = "gui"
    /\ batch.fmt = "csv"
    /\ Len(batch.rets) >= 1
    /\ batch.files[1].ext = "ndpa"
    /\ convert_ndpa_file(batch.files[1].in).ret = "False"
    /\ batch.rets[1] = "True"
    /\ batch.successful >= 1

---------------------------------------------------------------------------
(* C25 *)

\* the calibration lines, ShapeCount and the shape blocks of a document
Content(lines) ==
    Tagged(lines, {"X_CalibrationPoint", "Y_CalibrationPoint", "ShapeCount",
                   "Shape", "PointCount", "X", "Y", "/Shape"})

\* C25: on every NDPA input convert_ndpa_file succeeds exactly when
\* convert_ndpa_to_lmd without the allow flag succeeds, run as a script or
\* called from a library, and when they succeed the two write the same
\* calibration values, ShapeCount and shape blocks.
C25_GuiAgreesWithCli ==
    call.tool = "gui" =>
        \A script \in BOOLEAN :
            LET cli == convert_ndpa_to_lmd(call.in, FALSE, script)
            IN  /\ Succeeded <=> (cli.ret = "True")
                /\ Succeeded => Content(res.lines) = Content(cli.lines)

---------------------------------------------------------------------------
(* The window: the main thread's handlers, the worker thread and the queue
   between them (MicroBridge_GUI.py) *)

MaxStarts == 2
MaxEvents == 2

\* The files the window's list is filled from: a convertible a.ndpa and a
\* b.ndpa whose second calibration region cannot be resolved.  Both pass the
\* pre-flight checks.
AppFiles ==
    {File("d1", "a", "ndpa", GoodXml),
     File("d1", "b", "ndpa", XmlInput("ok", <<CircleA, Ruler, CircleA>>))}

\* an item of self.queue, and the thread that put it
Item(by, kind, a, b) == [by |-> by, kind |-> kind, a |-> a, b |-> b]

\* self.queue.put of a thread, one item after the other
Put(a, by, items) ==
    [a EXCEPT !.queue = @ \o items,
              !.sent = IF by = "worker" THEN @ \o items ELSE @]

\* self.worker_thread and self.worker_thread.is_alive()
WorkerAlive == app.w.pc \notin {"none", "dead"}

\* The main thread runs a handler of the window: the window exists and the
\* thread is neither inside a modal dialog nor inside join.
MainIdle == app.main = "idle"

\* select_files, select_folder: a path is appended when the list does not
\* hold it yet
SelectFiles ==
    /\ MainIdle
    /\ app.events < MaxEvents
    /\ \E f \in AppFiles :
         /\ \A i \in DOMAIN app.files : app.files[i] # f
         /\ app' = Put([app EXCEPT !.files = Append(@, f), !.events = @ + 1],
                       "main", <<Item("main", "log", "added", 1)>>)
    /\ UNCHANGED <<call, res, disk, batch, past>>

\* _remove_selected_files: del self.input_files[index]
RemoveSelectedFiles ==
    /\ MainIdle
    /\ app.events < MaxEvents
    /\ \E index \in DOMAIN app.files :
         app' = Put([app EXCEPT
                        !.files = SubSeq(@, 1, index - 1)
                                  \o SubSeq(@, index + 1, Len(@)),
                        !.events = @ + 1],
                    "main", <<Item("main", "log", "removed", 1)>>)
    /\ UNCHANGED <<call, res, disk, batch, past>>

\* clear_files
ClearFiles ==
    /\ MainIdle
    /\ app.events < MaxEvents
    /\ app' = Put([app EXCEPT !.files = <<>>, !.events = @ + 1],
                  "main", <<Item("main", "log", "cleared", 0)>>)
    /\ UNCHANGED <<call, res, disk, batch, past>>

\* a start_conversion that leaves the convert button enabled
start_conversionMutant ==
    IF app.files = <<>> \/ ~Preflight(app.files)
    THEN app
    ELSE [app EXCEPT !.stop = FALSE,
                     !.w = [NoWorker EXCEPT !.pc = "begin", !.listed = app.files],
                     !.starts = @ + 1]

\* start_conversion: an empty list or a failed pre-flight check returns with
\* nothing changed; otherwise the button is disabled, the stop event is
\* cleared and the worker thread is started.
start_conversion ==
    IF app.files = <<>> \/ ~Preflight(app.files)
    THEN app
    ELSE [app EXCEPT !.button = "disabled",
                     !.stop = FALSE,
                     !.w = [NoWorker EXCEPT !.pc = "begin", !.listed = app.files],
                     !.starts = @ + 1]

\* the convert button, which does nothing while it is disabled
ClickConvert ==
    /\ MainIdle
    /\ app.starts < MaxStarts
    /\ app.button = "normal"
    /\ app' = start_conversion
    /\ UNCHANGED <<call, res, disk, batch, past>>

\* _handle_enter_key
HandleEnterKey ==
    /\ MainIdle
    /\ app.starts < MaxStarts
    /\ app' = IF app.files # <<>> /\ app.button # "disabled"
              THEN start_conversion
              ELSE app
    /\ UNCHANGED <<call, res, disk, batch, past>>

\* _worker_convert_files up to its loop: total is read from the list, and the
\* three lines of the banner are enqueued
ThreadBegin ==
    /\ app.w.pc = "begin"
    /\ app' = Put([app EXCEPT !.w.pc = "snapshot", !.w.total = Len(app.files)],
                  "worker",
                  <<Item("worker", "log", "rule", 0),
                    Item("worker", "log", "starting", 0),
                    Item("worker", "log", "rule", 0)>>)
    /\ UNCHANGED <<call, res, disk, batch, past>>

\* list(self.input_files): the copy the loop runs over
ThreadSnapshot ==
    /\ app.w.pc = "snapshot"
    /\ app' = [app EXCEPT !.w.pc = "loop", !.w.snap = app.files]
    /\ UNCHANGED <<call, res, disk, batch, past>>

\* The head of one iteration: break when the stop event is set, otherwise
\* announce the file; the loop ends when the copy is used up.
ThreadCheck ==
    /\ app.w.pc = "loop"
    /\ app' =
         IF app.w.idx >= Len(app.w.snap)
         THEN [app EXCEPT !.w.pc = "summary"]
         ELSE IF app.stop
         THEN Put([app EXCEPT !.w.pc = "summary", !.w.cancelled = TRUE],
                  "worker", <<Item("worker", "log", "cancelled", 0)>>)
         ELSE Put([app EXCEPT !.w.pc = "file"],
                  "worker",
                  <<Item("worker", "progress_text", app.w.idx + 1, app.w.total),
                    Item("worker", "log", "processing", app.w.idx + 1)>>)
    /\ UNCHANGED <<call, res, disk, batch, past>>

\* the log lines of a conversion as items of the queue
LogItems(log) == [i \in DOMAIN log |-> Item("worker", "log", log[i].m, log[i].n)]

\* what the try block of an iteration gives for each file of the window, the
\* format left at auto-detect
Converted == [f \in AppFiles |-> GuiConvert("auto", f)]

\* the rest of the iteration: the conversion, the count and the progress value
ThreadConvert ==
    /\ app.w.pc = "file"
    /\ \E r \in {Converted[app.w.snap[app.w.idx + 1]]} :
         app' = Put([app EXCEPT !.w.pc = "loop",
                                !.w.idx = @ + 1,
                                !.w.successful = @ + Counted(r)],
                    "worker",
                    LogItems(r.log)
                    \o <<Item("worker", "progress", app.w.idx + 1, 0)>>)
    /\ UNCHANGED <<call, res, disk, batch, past>>

\* the branch of the summary: if self._stop_event.is_set()
SummaryBranch(stop) == IF stop THEN "stopped" ELSE "complete"

\* the summary up to the line of its branch
ThreadSummary ==
    /\ app.w.pc = "summary"
    /\ app' = Put([app EXCEPT !.w.pc = IF SummaryBranch(app.stop) = "stopped"
                                       THEN "enable" ELSE "done",
                              !.w.summary = SummaryBranch(app.stop)],
                  "worker",
                  <<Item("worker", "log", "rule", 0),
                    Item("worker", "log", SummaryBranch(app.stop),
                         app.w.successful)>>)
    /\ UNCHANGED <<call, res, disk, batch, past>>

\* _enqueue_done(successful, total) of the complete branch
ThreadDone ==
    /\ app.w.pc = "done"
    /\ app' = Put([app EXCEPT !.w.pc = "enable"],
                  "worker",
                  <<Item("worker", "done", app.w.successful, app.w.total)>>)
    /\ UNCHANGED <<call, res, disk, batch, past>>

\* The end of the worker: the closing rule, then root.after(0, ...) asks the
\* main thread to enable the button; when that call raises, which it does
\* once the window is destroyed, an enable_button item is enqueued instead.
ThreadEnable ==
    /\ app.w.pc = "enable"
    /\ \E raised \in IF app.main = "destroyed" THEN {TRUE} ELSE BOOLEAN :
         app' = IF raised
                THEN Put([app EXCEPT !.w.pc = "dead"], "worker",
                         <<Item("worker", "log", "rule", 0),
                           Item("worker", "enable_button", 0, 0)>>)
                ELSE Put([app EXCEPT !.w.pc = "dead", !.after = TRUE], "worker",
                         <<Item("worker", "log", "rule", 0)>>)
    /\ UNCHANGED <<call, res, disk, batch, past>>

\* The event loop runs callbacks: in mainloop and inside a modal dialog, not
\* inside join and not once the window is destroyed.
LoopRuns == app.main \in {"idle", "asking"}

\* the callback of root.after(0, ...): convert_btn.config(state=tk.NORMAL)
AfterCallback ==
    /\ LoopRuns
    /\ app.after
    /\ app' = [app EXCEPT !.after = FALSE, !.button = "normal"]
    /\ UNCHANGED <<call, res, disk, batch, past>>

\* a poll that is scheduled again only when no handler raised
RescheduledMutant(raised) == IF raised THEN "stopped" ELSE "scheduled"

\* finally: self.root.after(QUEUE_POLL_MS, self._process_queue)
Rescheduled(raised) == "scheduled"

\* The numbers of items one poll can take: all of them, when get_nowait ends
\* the loop with queue.Empty, or fewer, when the handler of the last one taken
\* raised; the handlers of log and done items are the ones not wrapped in a
\* try of their own.
Takes(q) ==
    {n \in 0..Len(q) : n = Len(q) \/ (n > 0 /\ q[n].kind \in {"log", "done"})}

\* _process_queue: the items are taken in queue order, an enable_button item
\* enables the button, and the poll is scheduled again.
ProcessQueue ==
    /\ LoopRuns
    /\ app.poller = "scheduled"
    /\ \E n \in Takes(app.queue) :
         app' = [app EXCEPT
                    !.queue = SubSeq(@, n + 1, Len(@)),
                    !.handled = @ \o SubSeq(app.queue, 1, n),
                    !.button = IF \E i \in 1..n : app.queue[i].kind = "enable_button"
                               THEN "normal" ELSE @,
                    !.poller = Rescheduled(n < Len(app.queue))]
    /\ UNCHANGED <<call, res, disk, batch, past>>

\* _on_closing up to its dialog: with a worker alive the user is asked, with
\* none the window is destroyed
ClosingAsk ==
    /\ MainIdle
    /\ app.events < MaxEvents
    /\ app' = IF WorkerAlive
              THEN [app EXCEPT !.main = "asking", !.events = @ + 1]
              ELSE [app EXCEPT !.main = "destroyed", !.poller = "cancelled",
                               !.events = @ + 1]
    /\ UNCHANGED <<call, res, disk, batch, past>>

\* an answer that sets the stop event whatever the user says
AnsweredMutant(response) ==
    IF response
    THEN Put([app EXCEPT !.stop = TRUE, !.main = "joining"],
             "main", <<Item("main", "log", "shutdown", 0)>>)
    ELSE [app EXCEPT !.stop = TRUE, !.main = "idle"]

\* the window after the user's answer: a yes sets the stop event, enqueues
\* the shutdown line and goes into join; a no does nothing
Answered(response) ==
    IF response
    THEN Put([app EXCEPT !.stop = TRUE, !.main = "joining"],
             "main", <<Item("main", "log", "shutdown", 0)>>)
    ELSE [app EXCEPT !.main = "idle"]

\* the user answers the dialog of _on_closing
ClosingAnswer ==
    /\ app.main = "asking"
    /\ \E response \in BOOLEAN : app' = Answered(response)
    /\ UNCHANGED <<call, res, disk, batch, past>>

\* join has returned, because the worker ended or after its timeout, and
\* root.destroy() closes the window
ClosingDestroy ==
    /\ app.main = "joining"
    /\ app' = [app EXCEPT !.main = "destroyed", !.poller = "cancelled"]
    /\ UNCHANGED <<call, res, disk, batch, past>>

MainThread ==
    \/ SelectFiles
    \/ RemoveSelectedFiles
    \/ ClearFiles
    \/ ClickConvert
    \/ HandleEnterKey
    \/ AfterCallback
    \/ ProcessQueue
    \/ ClosingAsk
    \/ ClosingAnswer
    \/ ClosingDestroy

WorkerThread ==
    \/ ThreadBegin
    \/ ThreadSnapshot
    \/ ThreadCheck
    \/ ThreadConvert
    \/ ThreadSummary
    \/ ThreadDone
    \/ ThreadEnable

NextApp == MainThread \/ WorkerThread

SpecApp == Init /\ [][NextApp]_vars

\* The scheduling the code relies on: a started thread runs to its end, the
\* event loop runs the callbacks it has scheduled, and join returns.
FairApp ==
    /\ WF_vars(WorkerThread)
    /\ WF_vars(AfterCallback)
    /\ WF_vars(ProcessQueue)
    /\ WF_vars(ClosingDestroy)

SpecAppFair == Init /\ [][NextApp]_vars /\ FairApp

---------------------------------------------------------------------------
(* C26 *)

\* the worker has not yet finished the last file of its batch
Converting == app.w.pc \in {"begin", "snapshot", "loop", "file"}

\* a step that starts a worker thread
StartsWorker == app'.starts > app.starts

\* the window is closing or closed: the user confirmed the exit
Closing == app.main \in {"joining", "destroyed"}

---------------------------------------------------------------------------
(* C27 *)

\* the worker has made its copy of the list
Copied == app.w.pc \notin {"none", "begin", "snapshot"}

\* C27: the files a batch converts are the files the list held when
\* start_conversion started the worker, whatever is added, removed or cleared
\* afterwards; the total the worker reports is the number of those files; and
\* every progress value enqueued, the last of which is the count of files
\* gone through, lies within 1..total.
C27_SnapshotFixedAtStart ==
    Copied =>
        /\ app.w.snap = app.w.listed
        /\ app.w.total = Len(app.w.snap)
        /\ app.w.idx \in 0..app.w.total

---------------------------------------------------------------------------
(* C29 *)

\* a step that sets the stop event
SetsStop == app'.stop /\ ~app.stop

\* a step in which the user declines the close dialog
Declines == app.main = "asking" /\ app'.main = "idle"

\* a step that destroys the window
Destroys == app'.main = "destroyed" /\ app.main # "destroyed"

\* a step in which the worker enqueues the done item
EnqueuesDone ==
    /\ Len(app'.sent) > Len(app.sent)
    /\ app'.sent[Len(app'.sent)].kind = "done"

\* the worker found the stop event set, at the head of its loop or at its
\* summary
FoundStopped == app.w.cancelled \/ app.w.summary = "stopped"

---------------------------------------------------------------------------
(* C30 *)

\* the worker's items among a sequence of items
OfWorker(items) == SelectSeq(items, LAMBDA it : it.by = "worker")

\* Every item the worker has put is either taken by a poll or still in the
\* queue, once, and in the order of the puts.  An item whose handler raised
\* counts as taken.
InPutOrder == OfWorker(app.handled \o app.queue) = app.sent

\* every item the worker has put so far has been taken by a poll
AllHandled == OfWorker(app.handled) = app.sent

\* after every poll the next one is scheduled, as long as the window exists
PollScheduled == app.main # "destroyed" => app.poller = "scheduled"

====
